---- MODULE Spec2Model ----
(***************************************************************************)
(* Model of backend/server.py: the role-based task-management API.         *)
(*                                                                         *)
(* The two MongoDB collections (db.users, db.tasks) are sets of documents. *)
(* Every route handler is a coroutine; a handler that looks a document up  *)
(* and writes afterwards (register, toggle_user_active, delete_user,       *)
(* update_task_status, seed_data) is split at the await between the two    *)
(* store calls, so that other requests interleave there.  The suspended    *)
(* coroutines are the records of `inflight`.  The authentication           *)
(* dependency and the first store call of a handler form one step.         *)
(*                                                                         *)
(* Left out: createdAt/updatedAt timestamps, task description and          *)
(* deadline (stored as supplied, never read by a handler modelled here),   *)
(* token expiry (every token is within its validity window), and the       *)
(* read-only routes /users, /users/{id}, /dashboard/*, /health.            *)
(***************************************************************************)
EXTENDS Integers, FiniteSets, Sequences, TLC

\* ---------------------------------------------------------------- bounds
\* Number of requests the clients send in one behaviour.
MaxRequests == 3
\* Number of handlers suspended at an await at the same time.
MaxInFlight == 1

\* ------------------------------------------------------------- constants
\* Python's None for an optional string field, and for an optional id.
None == "<None>"
NoId == 0
\* An id that no document carries (a caller may name any string as an id).
DanglingId == 999
\* Suspended marks a handler that has not answered yet: it is waiting at an
\* await between two store calls.
Suspended == 0
\* The status codes of the answers: 200 for a handler that returns, and the
\* status_code of each HTTPException.
OK == 200
BadRequest == 400
Unauthenticated == 401
Forbidden == 403
NotFound == 404

\* server.py:124, 198
Roles == {"admin", "manager", "employee"}
\* server.py:228
Priorities == {"low", "medium", "high", "critical"}
\* server.py:289
valid_statuses == {"pending", "in_progress", "review", "completed"}

\* -------------------------------------------------- caller-supplied inputs
EmailInputs == {"admin@office.com", "john@office.com", "mike@office.com"}
PasswordInputs == {"admin123", "employee123"}
NameInputs == {"Kim"}
RoleInputs == {"admin", "employee", "intern"}
PriorityInputs == {"low", "urgent"}
StatusInputs == {"completed", "done"}
TitleInputs == {"Task"}

\* ------------------------------------------------------------- utilities
hash_password(password) == [alg |-> "bcrypt", of |-> password]

verify_password(password, hashed) == hashed.alg = "bcrypt" /\ hashed.of = password

create_token(user_id, role) == [user_id |-> user_id, role |-> role]

\* A request without an Authorization header.
NoHeader == [user_id |-> NoId, role |-> None]

NoUser ==
  [id |-> NoId, email |-> None, password |-> hash_password(None), name |-> None,
   role |-> None, isActive |-> FALSE]

VARIABLES
  users,     \* db.users: set of user documents
  tasks,     \* db.tasks: set of task documents
  tokens,    \* the tokens issued so far (held by clients)
  inflight,  \* handlers suspended between two store calls
  last,      \* the latest handler step: the request and its answer
  idgen,     \* number of uuid4() values drawn so far
  nreq       \* number of requests received so far

vars == <<users, tasks, tokens, inflight, last, idgen, nreq>>

\* The answer of a handler step.
Answer(rid, op, hdr, target, arg, status, detail, body, n) ==
  [rid |-> rid, op |-> op, hdr |-> hdr, target |-> target, arg |-> arg,
   status |-> status, detail |-> detail, body |-> body, n |-> n]

\* A handler suspended at an await.
Pending(rid, op, hdr, target, arg, pc) ==
  [rid |-> rid, op |-> op, hdr |-> hdr, target |-> target, arg |-> arg, pc |-> pc]

Outcome(status, detail, user) == [status |-> status, detail |-> detail, user |-> user]

\* The Authorization headers a client can send: none, or an issued token.
\* The clients send requests without a header to the routes that depend on
\* get_current_user directly; to a role-gated route they send a token.
Headers == {NoHeader} \cup tokens

CanReceive == nreq < MaxRequests
CanSuspend == Cardinality(inflight) < MaxInFlight

\* ------------------------------------------------------- auth middleware
get_current_user(hdr) ==
  IF hdr = NoHeader
  THEN Outcome(Unauthenticated, "Not authenticated", NoUser)
  ELSE LET found == {u \in users : u.id = hdr.user_id}
       IN IF found = {}
          THEN Outcome(Unauthenticated, "User not found", NoUser)
          ELSE LET user == CHOOSE u \in found : TRUE
               IN IF ~user.isActive
                  THEN Outcome(Forbidden, "Access Denied - Account deactivated", NoUser)
                  ELSE Outcome(OK, "", user)

\* Mutant of require_role: the role claim of the token decides.
require_role_of_token(roles, hdr) ==
  LET r == get_current_user(hdr)
  IN IF r.status # OK THEN r
     ELSE IF hdr.role \notin roles
          THEN Outcome(Forbidden, "Insufficient permissions", NoUser)
          ELSE r

require_role(roles, hdr) ==
  LET r == get_current_user(hdr)
  IN IF r.status # OK THEN r
     ELSE IF r.user.role \notin roles
          THEN Outcome(Forbidden, "Insufficient permissions", NoUser)
          ELSE r

Init ==
  /\ users = {}
  /\ tasks = {}
  /\ tokens = {}
  /\ inflight = {}
  /\ last = Answer(0, "start", NoHeader, NoId, None, OK, "", {}, 0)
  /\ idgen = 0
  /\ nreq = 0

\* ----------------------------------------------------------- auth routes
\* Mutant of email_taken: the lookup filters on the wrong field.
email_taken_by_name(email) == \E u \in users : u.name = email

\* server.py:116-117: find_one({"email": data.email}) returned a document.
email_taken(email) == \E u \in users : u.email = email

\* register, up to the await of find_one (server.py:116-118).
register_lookup(data) ==
  /\ CanReceive
  /\ nreq' = nreq + 1
  /\ UNCHANGED <<users, tasks, tokens, idgen>>
  /\ IF email_taken(data.email)
     THEN /\ last' = Answer(nreq + 1, "register", NoHeader, NoId, data,
                            BadRequest, "Email already registered", {}, 0)
          /\ UNCHANGED inflight
     ELSE /\ CanSuspend
          /\ inflight' = inflight \cup
               {Pending(nreq + 1, "register", NoHeader, NoId, data, "insert")}
          /\ last' = Answer(nreq + 1, "register", NoHeader, NoId, data,
                            Suspended, "", {}, 0)

register_role(role) == IF role \in Roles THEN role ELSE "employee"

\* register, from insert_one to the answer (server.py:119-134).
register_insert(p) ==
  /\ p.op = "register" /\ p.pc = "insert"
  /\ LET user == [id |-> idgen + 1, email |-> p.arg.email,
                  password |-> hash_password(p.arg.password), name |-> p.arg.name,
                  role |-> register_role(p.arg.role), isActive |-> TRUE]
     IN /\ users' = users \cup {user}
        /\ tokens' = tokens \cup {create_token(user.id, user.role)}
        /\ last' = Answer(p.rid, "register", NoHeader, user.id, p.arg, OK, "", {}, 1)
  /\ idgen' = idgen + 1
  /\ inflight' = inflight \ {p}
  /\ UNCHANGED <<tasks, nreq>>

\* Mutant of login_outcome: a wrong password gets a message of its own.
login_outcome_wrong_password(found, data) ==
  IF found = NoUser
  THEN Outcome(Unauthenticated, "Invalid credentials", NoUser)
  ELSE IF ~found.isActive
       THEN Outcome(Forbidden, "Access Denied - Account deactivated", NoUser)
       ELSE IF ~verify_password(data.password, found.password)
            THEN Outcome(Unauthenticated, "Wrong password", NoUser)
            ELSE Outcome(OK, "", found)

\* The answer of login once find_one has returned `found` (server.py:139-149).
login_outcome(found, data) ==
  IF found = NoUser
  THEN Outcome(Unauthenticated, "Invalid credentials", NoUser)
  ELSE IF ~found.isActive
       THEN Outcome(Forbidden, "Access Denied - Account deactivated", NoUser)
       ELSE IF ~verify_password(data.password, found.password)
            THEN Outcome(Unauthenticated, "Invalid credentials", NoUser)
            ELSE Outcome(OK, "", found)

\* find_one returns some document that matches, or None.
find_one_by_email(email) ==
  IF \E u \in users : u.email = email THEN {u \in users : u.email = email} ELSE {NoUser}

login(data) ==
  /\ CanReceive
  /\ nreq' = nreq + 1
  /\ \E found \in find_one_by_email(data.email) :
       LET r == login_outcome(found, data)
       IN /\ tokens' = IF r.status = OK
                       THEN tokens \cup {create_token(r.user.id, r.user.role)}
                       ELSE tokens
          /\ last' = Answer(nreq + 1, "login", NoHeader, r.user.id, data,
                            r.status, r.detail, {}, 0)
  /\ UNCHANGED <<users, tasks, inflight, idgen>>

get_me(hdr) ==
  /\ CanReceive
  /\ nreq' = nreq + 1
  /\ LET r == get_current_user(hdr)
     IN last' = Answer(nreq + 1, "get_me", hdr, r.user.id, None, r.status, r.detail, {}, 0)
  /\ UNCHANGED <<users, tasks, tokens, inflight, idgen>>

\* ------------------------------------------------- user management routes
\* {"$set": update_data} on a user document; a field that is None was dropped
\* from update_data by the comprehension of server.py:171.
set_user_fields(u, data) ==
  [u EXCEPT !.name = IF data.name # None THEN data.name ELSE @,
            !.email = IF data.email # None THEN data.email ELSE @,
            !.role = IF data.role # None THEN data.role ELSE @]

update_user(user_id, data, hdr) ==
  /\ CanReceive
  /\ nreq' = nreq + 1
  /\ LET r == require_role({"admin"}, hdr)
         matched == {u \in users : u.id = user_id}
     IN IF r.status # OK
        THEN /\ last' = Answer(nreq + 1, "update_user", hdr, user_id, data,
                               r.status, r.detail, {}, 0)
             /\ UNCHANGED users
        ELSE IF data.name = None /\ data.email = None /\ data.role = None
        THEN /\ last' = Answer(nreq + 1, "update_user", hdr, user_id, data,
                               BadRequest, "No data to update", {}, 0)
             /\ UNCHANGED users
        ELSE IF matched = {}
        THEN /\ last' = Answer(nreq + 1, "update_user", hdr, user_id, data,
                               NotFound, "User not found", {}, 0)
             /\ UNCHANGED users
        ELSE /\ users' = (users \ matched) \cup {set_user_fields(u, data) : u \in matched}
             /\ last' = Answer(nreq + 1, "update_user", hdr, user_id, data, OK, "", {}, 1)
  /\ UNCHANGED <<tasks, tokens, inflight, idgen>>

\* Mutant of toggle_is_self: the check compares the wrong keys.
toggle_is_self_wrong_keys(user, current_user) == user.email = current_user.name

\* server.py:186
toggle_is_self(user, current_user) == user.id = current_user.id

\* toggle_user_active, up to the await of update_one (server.py:183-188).
toggle_user_active_lookup(user_id, hdr) ==
  /\ CanReceive
  /\ nreq' = nreq + 1
  /\ UNCHANGED <<users, tasks, tokens, idgen>>
  /\ LET r == require_role({"admin"}, hdr)
         found == {u \in users : u.id = user_id}
     IN IF r.status # OK
        THEN /\ last' = Answer(nreq + 1, "toggle_user_active", hdr, user_id, None,
                               r.status, r.detail, {}, 0)
             /\ UNCHANGED inflight
        ELSE IF found = {}
        THEN /\ last' = Answer(nreq + 1, "toggle_user_active", hdr, user_id, None,
                               NotFound, "User not found", {}, 0)
             /\ UNCHANGED inflight
        ELSE LET user == CHOOSE u \in found : TRUE
             IN IF toggle_is_self(user, r.user)
                THEN /\ last' = Answer(nreq + 1, "toggle_user_active", hdr, user_id, None,
                                       BadRequest, "Cannot deactivate yourself", {}, 0)
                     /\ UNCHANGED inflight
                ELSE /\ CanSuspend
                     /\ inflight' = inflight \cup
                          {Pending(nreq + 1, "toggle_user_active", hdr, user_id,
                                   [new_status |-> ~user.isActive], "update")}
                     /\ last' = Answer(nreq + 1, "toggle_user_active", hdr, user_id, None,
                                       Suspended, "", {}, 0)

\* toggle_user_active, update_one and the answer (server.py:189-193);
\* p.arg holds new_status.
toggle_user_active_update(p) ==
  /\ p.op = "toggle_user_active" /\ p.pc = "update"
  /\ LET matched == {u \in users : u.id = p.target}
         new_status == p.arg.new_status
     IN /\ users' = (users \ matched) \cup
                      {[u EXCEPT !.isActive = new_status] : u \in matched}
        /\ last' = Answer(p.rid, "toggle_user_active", p.hdr, p.target, p.arg, OK,
                          IF new_status THEN "User activated" ELSE "User deactivated",
                          {}, Cardinality(matched))
  /\ inflight' = inflight \ {p}
  /\ UNCHANGED <<tasks, tokens, idgen, nreq>>

update_user_role(user_id, role, hdr) ==
  /\ CanReceive
  /\ nreq' = nreq + 1
  /\ LET r == require_role({"admin"}, hdr)
         matched == {u \in users : u.id = user_id}
     IN IF r.status # OK
        THEN /\ last' = Answer(nreq + 1, "update_user_role", hdr, user_id, role,
                               r.status, r.detail, {}, 0)
             /\ UNCHANGED users
        ELSE IF role \notin Roles
        THEN /\ last' = Answer(nreq + 1, "update_user_role", hdr, user_id, role,
                               BadRequest, "Invalid role", {}, 0)
             /\ UNCHANGED users
        ELSE IF matched = {}
        THEN /\ last' = Answer(nreq + 1, "update_user_role", hdr, user_id, role,
                               NotFound, "User not found", {}, 0)
             /\ UNCHANGED users
        ELSE /\ users' = (users \ matched) \cup {[u EXCEPT !.role = role] : u \in matched}
             /\ last' = Answer(nreq + 1, "update_user_role", hdr, user_id, role, OK, "", {}, 1)
  /\ UNCHANGED <<tasks, tokens, inflight, idgen>>

\* server.py:210
delete_is_self(user_id, current_user) == user_id = current_user.id

\* delete_user, up to the await of delete_many (server.py:210-214).
delete_user_delete_one(user_id, hdr) ==
  /\ CanReceive
  /\ nreq' = nreq + 1
  /\ UNCHANGED <<tasks, tokens, idgen>>
  /\ LET r == require_role({"admin"}, hdr)
         matched == {u \in users : u.id = user_id}
     IN IF r.status # OK
        THEN /\ last' = Answer(nreq + 1, "delete_user", hdr, user_id, None,
                               r.status, r.detail, {}, 0)
             /\ UNCHANGED <<users, inflight>>
        ELSE IF delete_is_self(user_id, r.user)
        THEN /\ last' = Answer(nreq + 1, "delete_user", hdr, user_id, None,
                               BadRequest, "Cannot delete yourself", {}, 0)
             /\ UNCHANGED <<users, inflight>>
        ELSE IF matched = {}
        THEN /\ last' = Answer(nreq + 1, "delete_user", hdr, user_id, None,
                               NotFound, "User not found", {}, 0)
             /\ UNCHANGED <<users, inflight>>
        ELSE /\ CanSuspend
             /\ users' = users \ matched
             /\ inflight' = inflight \cup
                  {Pending(nreq + 1, "delete_user", hdr, user_id, [none |-> None], "delete_many")}
             /\ last' = Answer(nreq + 1, "delete_user", hdr, user_id, None,
                               Suspended, "", {}, 1)

\* Mutant of tasks_assigned_to: the cascade filters on the creator.
tasks_created_by(user_id) == {t \in tasks : t.createdBy = user_id}

\* The documents db.tasks.delete_many({"assignedTo": user_id}) removes.
tasks_assigned_to(user_id) == {t \in tasks : t.assignedTo = user_id}

\* delete_user, delete_many and the answer (server.py:216-217).
delete_user_delete_many(p) ==
  /\ p.op = "delete_user" /\ p.pc = "delete_many"
  /\ tasks' = tasks \ tasks_assigned_to(p.target)
  /\ last' = Answer(p.rid, "delete_user", p.hdr, p.target, None, OK, "User deleted", {},
                    Cardinality(tasks_assigned_to(p.target)))
  /\ inflight' = inflight \ {p}
  /\ UNCHANGED <<users, tokens, idgen, nreq>>

\* ----------------------------------------------------------- task routes
create_task_priority(priority) == IF priority \in Priorities THEN priority ELSE "medium"

create_task(data, hdr) ==
  /\ CanReceive
  /\ nreq' = nreq + 1
  /\ LET r == require_role({"admin", "manager"}, hdr)
     IN IF r.status # OK
        THEN /\ last' = Answer(nreq + 1, "create_task", hdr, NoId, data,
                               r.status, r.detail, {}, 0)
             /\ UNCHANGED <<tasks, idgen>>
        ELSE LET task == [id |-> idgen + 1, title |-> data.title, status |-> "pending",
                          priority |-> create_task_priority(data.priority),
                          assignedTo |-> data.assignedTo, createdBy |-> r.user.id,
                          createdByName |-> r.user.name]
             IN /\ tasks' = tasks \cup {task}
                /\ idgen' = idgen + 1
                /\ last' = Answer(nreq + 1, "create_task", hdr, task.id, data, OK, "",
                                  {task}, 1)
  /\ UNCHANGED <<users, tokens, inflight>>

\* Mutant of get_tasks_query: the caller's assignedTo filter is honoured for
\* every role.
get_tasks_query_any_role(current_user, status, priority, assignedTo) ==
  [assignedTo |-> IF assignedTo # NoId
                  THEN assignedTo
                  ELSE IF current_user.role = "employee" THEN current_user.id ELSE NoId,
   status |-> status,
   priority |-> priority]

\* The query dict of get_tasks (server.py:247-255); a key that is not set
\* is None (NoId for assignedTo).
get_tasks_query(current_user, status, priority, assignedTo) ==
  [assignedTo |-> IF assignedTo # NoId /\ current_user.role # "employee"
                  THEN assignedTo
                  ELSE IF current_user.role = "employee" THEN current_user.id ELSE NoId,
   status |-> status,
   priority |-> priority]

\* db.tasks.find(query): equality on every key the query sets.
find_tasks(query) ==
  {t \in tasks : /\ (query.assignedTo # NoId => t.assignedTo = query.assignedTo)
                 /\ (query.status # None => t.status = query.status)
                 /\ (query.priority # None => t.priority = query.priority)}

\* The key assignedToName is not set on the returned task.
Absent == "<absent>"

\* server.py:258-263
enrich(found) ==
  LET user_ids == {t.assignedTo : t \in {x \in found : x.assignedTo # NoId}}
      named == {u \in users : u.id \in user_ids}
      name_of(id) == IF \E u \in named : u.id = id
                     THEN (CHOOSE u \in named : u.id = id).name
                     ELSE "Unassigned"
  IN {[id |-> t.id, title |-> t.title, status |-> t.status, priority |-> t.priority,
       assignedTo |-> t.assignedTo, createdBy |-> t.createdBy,
       createdByName |-> t.createdByName,
       assignedToName |-> IF user_ids # {} THEN name_of(t.assignedTo) ELSE Absent]
      : t \in found}

get_tasks(status, priority, assignedTo, hdr) ==
  /\ CanReceive
  /\ nreq' = nreq + 1
  /\ LET r == get_current_user(hdr)
         arg == [status |-> status, priority |-> priority, assignedTo |-> assignedTo]
     IN IF r.status # OK
        THEN last' = Answer(nreq + 1, "get_tasks", hdr, NoId, arg, r.status, r.detail, {}, 0)
        ELSE LET found == find_tasks(get_tasks_query(r.user, status, priority, assignedTo))
             IN last' = Answer(nreq + 1, "get_tasks", hdr, NoId, arg, OK, "",
                               enrich(found), Cardinality(found))
  /\ UNCHANGED <<users, tasks, tokens, inflight, idgen>>

\* {"$set": update_data} on a task document (server.py:277-281).
set_task_fields(t, data) ==
  [t EXCEPT !.title = IF data.title # None THEN data.title ELSE @,
            !.priority = IF data.priority # None THEN data.priority ELSE @,
            !.assignedTo = IF data.assignedTo # NoId THEN data.assignedTo ELSE @]

update_task(task_id, data, hdr) ==
  /\ CanReceive
  /\ nreq' = nreq + 1
  /\ LET r == require_role({"admin", "manager"}, hdr)
         matched == {t \in tasks : t.id = task_id}
     IN IF r.status # OK
        THEN /\ last' = Answer(nreq + 1, "update_task", hdr, task_id, data,
                               r.status, r.detail, {}, 0)
             /\ UNCHANGED tasks
        ELSE IF data.title = None /\ data.priority = None /\ data.assignedTo = NoId
        THEN /\ last' = Answer(nreq + 1, "update_task", hdr, task_id, data,
                               BadRequest, "No data to update", {}, 0)
             /\ UNCHANGED tasks
        ELSE IF matched = {}
        THEN /\ last' = Answer(nreq + 1, "update_task", hdr, task_id, data,
                               NotFound, "Task not found", {}, 0)
             /\ UNCHANGED tasks
        ELSE /\ tasks' = (tasks \ matched) \cup {set_task_fields(t, data) : t \in matched}
             /\ last' = Answer(nreq + 1, "update_task", hdr, task_id, data, OK, "", {}, 1)
  /\ UNCHANGED <<users, tokens, inflight, idgen>>

\* Mutant of not_your_task: the comparison is inverted.
not_your_task_inverted(task, current_user) ==
  current_user.role = "employee" /\ task.assignedTo = current_user.id

\* server.py:296
not_your_task(task, current_user) ==
  current_user.role = "employee" /\ task.assignedTo # current_user.id

\* update_task_status, up to the await of update_one (server.py:289-297).
update_task_status_lookup(task_id, status, hdr) ==
  /\ CanReceive
  /\ nreq' = nreq + 1
  /\ UNCHANGED <<users, tasks, tokens, idgen>>
  /\ LET r == get_current_user(hdr)
         found == {t \in tasks : t.id = task_id}
         arg == [status |-> status]
     IN IF r.status # OK
        THEN /\ last' = Answer(nreq + 1, "update_task_status", hdr, task_id, arg,
                               r.status, r.detail, {}, 0)
             /\ UNCHANGED inflight
        ELSE IF status \notin valid_statuses
        THEN /\ last' = Answer(nreq + 1, "update_task_status", hdr, task_id, arg,
                               BadRequest, "Invalid status", {}, 0)
             /\ UNCHANGED inflight
        ELSE IF found = {}
        THEN /\ last' = Answer(nreq + 1, "update_task_status", hdr, task_id, arg,
                               NotFound, "Task not found", {}, 0)
             /\ UNCHANGED inflight
        ELSE IF not_your_task(CHOOSE t \in found : TRUE, r.user)
        THEN /\ last' = Answer(nreq + 1, "update_task_status", hdr, task_id, arg,
                               Forbidden, "Not your task", {}, 0)
             /\ UNCHANGED inflight
        ELSE /\ CanSuspend
             /\ inflight' = inflight \cup
                  {Pending(nreq + 1, "update_task_status", hdr, task_id, arg, "update")}
             /\ last' = Answer(nreq + 1, "update_task_status", hdr, task_id, arg,
                               Suspended, "", {}, 0)

\* update_task_status, update_one, the re-read and the answer (server.py:298-303).
update_task_status_update(p) ==
  /\ p.op = "update_task_status" /\ p.pc = "update"
  /\ LET matched == {t \in tasks : t.id = p.target}
         updated == {[t EXCEPT !.status = p.arg.status] : t \in matched}
     IN /\ tasks' = (tasks \ matched) \cup updated
        /\ last' = Answer(p.rid, "update_task_status", p.hdr, p.target, p.arg, OK, "",
                          updated, Cardinality(matched))
  /\ inflight' = inflight \ {p}
  /\ UNCHANGED <<users, tokens, idgen, nreq>>

delete_task(task_id, hdr) ==
  /\ CanReceive
  /\ nreq' = nreq + 1
  /\ LET r == require_role({"admin", "manager"}, hdr)
         matched == {t \in tasks : t.id = task_id}
     IN IF r.status # OK
        THEN /\ last' = Answer(nreq + 1, "delete_task", hdr, task_id, None,
                               r.status, r.detail, {}, 0)
             /\ UNCHANGED tasks
        ELSE IF matched = {}
        THEN /\ last' = Answer(nreq + 1, "delete_task", hdr, task_id, None,
                               NotFound, "Task not found", {}, 0)
             /\ UNCHANGED tasks
        ELSE /\ tasks' = tasks \ matched
             /\ last' = Answer(nreq + 1, "delete_task", hdr, task_id, None, OK,
                               "Task deleted", {}, 1)
  /\ UNCHANGED <<users, tokens, inflight, idgen>>

\* ------------------------------------------------------------- seed data
SeedUser(id, email, password, name, role, isActive) ==
  [id |-> id, email |-> email, password |-> hash_password(password), name |-> name,
   role |-> role, isActive |-> isActive]

\* server.py:391-403; the five ids are base+1 .. base+5.
seed_users(base) ==
  {SeedUser(base + 1, "admin@office.com", "admin123", "Alex Admin", "admin", TRUE),
   SeedUser(base + 2, "manager@office.com", "manager123", "Morgan Manager", "manager", TRUE),
   SeedUser(base + 3, "john@office.com", "employee123", "John Developer", "employee", TRUE),
   SeedUser(base + 4, "sarah@office.com", "employee123", "Sarah Designer", "employee", TRUE),
   SeedUser(base + 5, "mike@office.com", "employee123", "Mike Tester", "employee", FALSE)}

SeedTask(id, title, status, priority, assignedTo, createdBy, createdByName) ==
  [id |-> id, title |-> title, status |-> status, priority |-> priority,
   assignedTo |-> assignedTo, createdBy |-> createdBy, createdByName |-> createdByName]

\* server.py:408-415; ubase is the base of the user ids, tbase of the task ids.
seed_tasks(ubase, tbase) ==
  LET admin_id == ubase + 1
      manager_id == ubase + 2
      emp1_id == ubase + 3
      emp2_id == ubase + 4
  IN {SeedTask(tbase + 1, "Design landing page", "in_progress", "high",
               emp2_id, manager_id, "Morgan Manager"),
      SeedTask(tbase + 2, "Fix authentication bug", "pending", "critical",
               emp1_id, manager_id, "Morgan Manager"),
      SeedTask(tbase + 3, "Write unit tests", "review", "medium",
               emp1_id, manager_id, "Morgan Manager"),
      SeedTask(tbase + 4, "Update API documentation", "pending", "low",
               emp1_id, admin_id, "Alex Admin"),
      SeedTask(tbase + 5, "Design email templates", "completed", "medium",
               emp2_id, manager_id, "Morgan Manager"),
      SeedTask(tbase + 6, "Performance optimization", "pending", "high",
               emp1_id, admin_id, "Alex Admin")}

\* server.py:386
already_seeded == \E u \in users : u.email = "admin@office.com"

\* seed_data, up to the await of insert_many(users) (server.py:386-403).
seed_data_lookup ==
  /\ CanReceive
  /\ nreq' = nreq + 1
  /\ UNCHANGED <<users, tasks, tokens, idgen>>
  /\ IF already_seeded
     THEN /\ last' = Answer(nreq + 1, "seed_data", NoHeader, NoId, None, OK,
                            "Data already seeded", {}, 0)
          /\ UNCHANGED inflight
     ELSE /\ CanSuspend
          /\ inflight' = inflight \cup
               {Pending(nreq + 1, "seed_data", NoHeader, NoId, [none |-> None], "insert_users")}
          /\ last' = Answer(nreq + 1, "seed_data", NoHeader, NoId, None, Suspended, "", {}, 0)

\* seed_data, insert_many(users) up to the await of insert_many(tasks).
seed_data_insert_users(p) ==
  /\ p.op = "seed_data" /\ p.pc = "insert_users"
  /\ users' = users \cup seed_users(idgen)
  /\ idgen' = idgen + 5
  /\ inflight' = (inflight \ {p}) \cup
       {Pending(p.rid, "seed_data", NoHeader, idgen, p.arg, "insert_tasks")}
  /\ last' = Answer(p.rid, "seed_data", NoHeader, idgen, None, Suspended, "", {}, 5)
  /\ UNCHANGED <<tasks, tokens, nreq>>

\* seed_data, insert_many(tasks) and the answer (server.py:407-422);
\* p.target is the base of the user ids.
seed_data_insert_tasks(p) ==
  /\ p.op = "seed_data" /\ p.pc = "insert_tasks"
  /\ tasks' = tasks \cup seed_tasks(p.target, idgen)
  /\ idgen' = idgen + 6
  /\ inflight' = inflight \ {p}
  /\ last' = Answer(p.rid, "seed_data", NoHeader, p.target, None, OK,
                    "Seed data created", {}, 6)
  /\ UNCHANGED <<users, tokens, nreq>>

\* ------------------------------------------------------------ the clients
UserIds == {u.id : u \in users} \cup {DanglingId}
TaskIds == {t.id : t \in tasks} \cup {DanglingId}

\* A partial update sets no field, or one field.
UserUpdateInputs ==
  {[name |-> None, email |-> None, role |-> None]}
    \cup {[name |-> n, email |-> None, role |-> None] : n \in {"Kim R"}}
    \cup {[name |-> None, email |-> e, role |-> None] : e \in {"admin@office.com"}}
    \cup {[name |-> None, email |-> None, role |-> r] : r \in {"manager", "intern"}}

TaskCreateInputs ==
  [title : TitleInputs, priority : PriorityInputs,
   assignedTo : {NoId} \cup {u.id : u \in users}]

TaskUpdateInputs ==
  {[title |-> None, priority |-> None, assignedTo |-> NoId]}
    \cup {[title |-> t, priority |-> None, assignedTo |-> NoId] : t \in {"Retitled"}}
    \cup {[title |-> None, priority |-> p, assignedTo |-> NoId] : p \in PriorityInputs}
    \cup {[title |-> None, priority |-> None, assignedTo |-> u.id] : u \in users}

\* The filters of a list request: none, one of them, or all three.
TaskFilterInputs ==
  {[status |-> None, priority |-> None, assignedTo |-> NoId],
   [status |-> "pending", priority |-> None, assignedTo |-> NoId],
   [status |-> None, priority |-> "high", assignedTo |-> NoId]}
    \cup {[status |-> None, priority |-> None, assignedTo |-> u.id] : u \in users}
    \cup {[status |-> "pending", priority |-> "high", assignedTo |-> u.id] : u \in users}

RegisterInputs ==
  [email : EmailInputs, password : {"admin123"}, name : NameInputs, role : RoleInputs]

LoginInputs == [email : EmailInputs, password : PasswordInputs]

Next ==
  \/ \E data \in RegisterInputs : register_lookup(data)
  \/ \E p \in inflight : register_insert(p)
  \/ \E data \in LoginInputs : login(data)
  \/ \E hdr \in Headers : get_me(hdr)
  \/ \E hdr \in tokens, user_id \in UserIds, data \in UserUpdateInputs :
       update_user(user_id, data, hdr)
  \/ \E hdr \in tokens, user_id \in UserIds : toggle_user_active_lookup(user_id, hdr)
  \/ \E p \in inflight : toggle_user_active_update(p)
  \/ \E hdr \in tokens, user_id \in UserIds, role \in RoleInputs :
       update_user_role(user_id, role, hdr)
  \/ \E hdr \in tokens, user_id \in UserIds : delete_user_delete_one(user_id, hdr)
  \/ \E p \in inflight : delete_user_delete_many(p)
  \/ \E hdr \in tokens, data \in TaskCreateInputs : create_task(data, hdr)
  \/ \E hdr \in Headers, f \in TaskFilterInputs :
       get_tasks(f.status, f.priority, f.assignedTo, hdr)
  \/ \E hdr \in tokens, task_id \in TaskIds, data \in TaskUpdateInputs :
       update_task(task_id, data, hdr)
  \/ \E hdr \in Headers, task_id \in TaskIds, status \in StatusInputs :
       update_task_status_lookup(task_id, status, hdr)
  \/ \E p \in inflight : update_task_status_update(p)
  \/ \E hdr \in tokens, task_id \in TaskIds : delete_task(task_id, hdr)
  \/ seed_data_lookup
  \/ \E p \in inflight : seed_data_insert_users(p)
  \/ \E p \in inflight : seed_data_insert_tasks(p)

Spec == Init /\ [][Next]_vars

\* ------------------------------------------------------------ properties
\* The handler step taken is the first step of a new request.
NewRequest == nreq' = nreq + 1

\* The handler step taken is the last step of a suspended handler.
Answered == Cardinality(inflight') < Cardinality(inflight)

\* The stored documents with a given id.
StoredUsers(id) == {u \in users : u.id = id}

\* C1: every task list tasks returns to an actor whose stored role is
\* employee is assigned to that actor, whatever filters the caller supplies.
EmployeeListsOnlyOwnTasks ==
  (/\ last.op = "get_tasks"
   /\ last.status = OK
   /\ \E u \in StoredUsers(last.hdr.user_id) : u.role = "employee")
  => \A t \in last.body : t.assignedTo = last.hdr.user_id

\* An employee asked for the tasks of another user who has tasks, and got
\* tasks back.
EmployeeListsOnlyOwnTasksWitness ==
  /\ last.op = "get_tasks"
  /\ last.status = OK
  /\ \E u \in StoredUsers(last.hdr.user_id) : u.role = "employee"
  /\ last.arg.assignedTo \notin {NoId, last.hdr.user_id}
  /\ \E t \in tasks : t.assignedTo = last.arg.assignedTo
  /\ last.body # {}

\* C2: updateStatus with a valid status, by an actor whose stored role is
\* employee, on an existing task assigned to someone else answers Forbidden
\* and writes nothing (no task changes and no write is left pending).
EmployeeForeignStatusForbidden ==
  [][(/\ NewRequest
      /\ last'.op = "update_task_status"
      /\ last'.arg.status \in valid_statuses
      /\ \E u \in StoredUsers(last'.hdr.user_id) : u.role = "employee"
      /\ \E t \in tasks : t.id = last'.target /\ t.assignedTo # last'.hdr.user_id)
     => (last'.status = Forbidden /\ tasks' = tasks /\ inflight' = inflight)]_vars

\* An active employee was refused on a task of someone else.
EmployeeForeignStatusForbiddenWitness ==
  /\ last.op = "update_task_status"
  /\ last.status = Forbidden
  /\ last.detail = "Not your task"
  /\ last.arg.status \in valid_statuses
  /\ \E u \in StoredUsers(last.hdr.user_id) : u.role = "employee" /\ u.isActive
  /\ \E t \in tasks : t.id = last.target /\ t.assignedTo # last.hdr.user_id

\* The routes behind get_current_user or require_role, and the roles each
\* role-gated route names.
ProtectedOps ==
  {"get_me", "update_user", "toggle_user_active", "update_user_role", "delete_user",
   "create_task", "get_tasks", "update_task", "update_task_status", "delete_task"}

RoleGatedOps ==
  {"update_user", "toggle_user_active", "update_user_role", "delete_user",
   "create_task", "update_task", "delete_task"}

RolesAllowed(op) ==
  IF op \in {"create_task", "update_task", "delete_task"}
  THEN {"admin", "manager"}
  ELSE {"admin"}

Deactivated(a) == a.status = Forbidden /\ a.detail = "Access Denied - Account deactivated"
Insufficient(a) == a.status = Forbidden /\ a.detail = "Insufficient permissions"

WrongPassword(data) ==
  \A u \in users : u.email = data.email => ~verify_password(data.password, u.password)

\* The answer login gives to an email that matches no account.
SameAsUnknownEmail(a) ==
  /\ a.status = login_outcome(NoUser, a.arg).status
  /\ a.detail = login_outcome(NoUser, a.arg).detail

\* C4 as stated: a login with the email of an existing account and a wrong
\* password is Unauthenticated, with the answer of an unknown email.
WrongPasswordIsUnauthenticated ==
  (/\ last.op = "login"
   /\ \E u \in users : u.email = last.arg.email
   /\ WrongPassword(last.arg))
  => (last.status = Unauthenticated /\ SameAsUnknownEmail(last))

\* C4 as amended: a login with the email of an existing account that is
\* active (every account with that email, should several share it) and a
\* wrong password is Unauthenticated, with the answer of an unknown email.
WrongPasswordOnActiveIsUnauthenticated ==
  (/\ last.op = "login"
   /\ \E u \in users : u.email = last.arg.email
   /\ \A u \in users : u.email = last.arg.email => u.isActive
   /\ WrongPassword(last.arg))
  => (last.status = Unauthenticated /\ SameAsUnknownEmail(last))

\* A wrong password was refused on an active account.
WrongPasswordOnActiveWitness ==
  /\ last.op = "login"
  /\ \E u \in users : u.email = last.arg.email /\ u.isActive
  /\ \A u \in users : u.email = last.arg.email => u.isActive
  /\ WrongPassword(last.arg)
  /\ last.status = Unauthenticated

\* The error kind of the taxonomy a status code stands for.
ErrorKind(status) ==
  CASE status = 400 -> "BadRequest"
    [] status = 401 -> "Unauthenticated"
    [] status = 403 -> "Forbidden"
    [] status = 404 -> "NotFound"
    [] status = 409 -> "Conflict"
    [] OTHER -> "none"

EmailsUnique == \A u, v \in users : u.email = v.email => u = v

\* C7 as stated: every stored task has a status and a priority of the
\* enumerated sets.
TaskEnumsValid ==
  \A t \in tasks : t.status \in valid_statuses /\ t.priority \in Priorities

\* C8 as stated: every stored user has one of the three roles.
RolesValid == \A u \in users : u.role \in Roles

\* C9: when delete_user answers 200 the user document is gone, no task is
\* assigned to the deleted id, and the cascade removed exactly the tasks that
\* were assigned to it.
DeleteUserCascades ==
  [][(Answered /\ last'.op = "delete_user" /\ last'.status = OK)
     => (/\ \A u \in users' : u.id # last'.target
         /\ \A t \in tasks' : t.assignedTo # last'.target
         /\ tasks' = {t \in tasks : t.assignedTo # last'.target})]_vars

\* A delete answered 200 after removing tasks of the deleted user, with
\* tasks of other users left in the store.
DeleteUserCascadesWitness ==
  /\ last.op = "delete_user"
  /\ last.status = OK
  /\ last.n > 0
  /\ tasks # {}
  /\ last.target # last.hdr.user_id

\* C10: delete or toggleActive by an admin on the admin's own id answers
\* BadRequest and changes neither store.
SelfTargetRejected ==
  [][(/\ NewRequest
      /\ last'.op \in {"delete_user", "toggle_user_active"}
      /\ last'.target = last'.hdr.user_id
      /\ \E u \in StoredUsers(last'.hdr.user_id) : u.isActive /\ u.role = "admin")
     => (/\ last'.status = BadRequest
         /\ users' = users /\ tasks' = tasks /\ inflight' = inflight)]_vars

\* An admin was refused the delete of the admin's own account, which is
\* still stored and active.
SelfTargetRejectedWitness ==
  /\ last.op = "delete_user"
  /\ last.status = BadRequest
  /\ last.detail = "Cannot delete yourself"
  /\ last.target = last.hdr.user_id
  /\ \E u \in StoredUsers(last.target) : u.isActive /\ u.role = "admin"

\* The emails of the five users seed_data inserts.
SeedEmails == {u.email : u \in seed_users(0)}

\* C11 as stated: a seed request received while a user with one of the seed
\* emails is stored answers "Data already seeded" and changes neither store
\* (no insert is left pending either).
SeedIsNoOpOnAnySeedEmail ==
  [][(NewRequest /\ last'.op = "seed_data" /\ \E u \in users : u.email \in SeedEmails)
     => (/\ last'.status = OK
         /\ last'.detail = "Data already seeded"
         /\ users' = users /\ tasks' = tasks /\ inflight' = inflight)]_vars

\* The assignedToName the read path owes a task: the current name of the
\* user the task is assigned to, or "Unassigned".
ExpectedAssigneeName(t) ==
  IF \E u \in users : u.id = t.assignedTo
  THEN (CHOOSE u \in users : u.id = t.assignedTo).name
  ELSE "Unassigned"

\* C12 as stated: every task of every list tasks result carries
\* assignedToName, the current name of its assignee or "Unassigned".
EveryListedTaskIsNamed ==
  (last.op = "get_tasks" /\ last.status = OK)
  => \A t \in last.body : t.assignedToName = ExpectedAssigneeName(t)
====
